---- MODULE Spec2Model ----
(***************************************************************************)
(* Lasthope bot: the per-user session store (USER_STATE), the /send, /add  *)
(* and /done handlers of main.py split at their await points, the job      *)
(* directories with their delayed cleanup, and the ffmpeg operations of    *)
(* ffmpeg_tools.py and merge.py with their process runners.                *)
(*                                                                         *)
(* Python dicts are objects: a handler keeps a reference to the session    *)
(* dict it read at entry, so sessions live in a heap and USER_STATE maps a *)
(* user to a reference (0 = no entry).  An optional value (a dict key that *)
(* may be missing, a variable that may be None) is a sequence of length 0  *)
(* or 1.  A downloaded file is named by the job directory that holds it,   *)
(* and a job directory by the handler invocation that made it.             *)
(*                                                                         *)
(* A handler is cut at the awaits where it meets shared state (the session *)
(* store, the descriptors in TMP_DIR, the job directories).  The awaits in *)
(* between touch only its own locals, so what happens there (the child's   *)
(* exit, a fallback command, the upload, the error reply) is taken in the  *)
(* step that ends the stretch, and `last` records it.                     *)
(***************************************************************************)
EXTENDS Integers, Sequences, FiniteSets, TLC

\* ---- bounds of the model ----
\* handler invocations (each makes at most one job directory)
MaxTasks == 3
\* ... in a run that uses every button of the menu
MaxTasksWide == 1
\* menu selections (each makes one session dict)
MaxSelect == 2
\* handlers suspended at an await at the same time
MaxActive == 2

Users == {1, 2}

VARIABLES
    USER_STATE,  \* main.py:59, user -> reference into heap, 0 = no entry
    heap,        \* the session dicts, by reference
    tasks,       \* the handler invocations (coroutines), by number
    job_dirs,    \* the job directory of each invocation and its cleanup task
    tmp_files,   \* the list descriptors in TMP_DIR: name -> lines
    clock,       \* event-loop time in ms (merge.py names its descriptor by it)
    last,        \* what the step just taken did, for stating the claims
    scope        \* the buttons pressed and the number of invocations in this run

vars == <<USER_STATE, heap, tasks, job_dirs, tmp_files, clock, last, scope>>

None == <<>>
Some(x) == <<x>>

\* ---- the menu: callback data and the session each one stores ----
NavData == {"menu_video", "menu_audio", "menu_misc", "menu_back", "unknown"}

SelectData == {"video_compress", "video_watermark", "video_moving_wm", "video_trim",
               "video_resize", "video_speed", "video_rotate", "video_thumb",
               "audio_extract", "audio_replace", "misc_merge"}

CallbackData == SelectData \cup NavData

ActionOf(data) ==
    CASE data = "video_compress" -> "compress"
      [] data = "video_watermark" -> "watermark"
      [] data = "video_moving_wm" -> "moving_wm"
      [] data = "video_trim" -> "trim"
      [] data = "video_resize" -> "resize"
      [] data = "video_speed" -> "speed"
      [] data = "video_rotate" -> "rotate"
      [] data = "video_thumb" -> "thumb"
      [] data = "audio_extract" -> "audio_extract"
      [] data = "audio_replace" -> "audio_replace"
      [] data = "misc_merge" -> "merge_collect"
      [] OTHER -> "none"

\* The dict literal a menu selection stores: only misc_merge has a "collected" key.
FreshSession(data) ==
    [action |-> ActionOf(data),
     collected |-> IF data = "misc_merge" THEN Some(<<>>) ELSE None,
     audio_target |-> None]

\* ---- paths ----
\* The file a handler downloads into its job directory, and its output file.
InputPath(t) == [dir |-> t, name |-> "input"]
OutPath(t, name) == [dir |-> t, name |-> name]

\* ---- handler invocations ----
NoCmd == [runner |-> "", op |-> "", variant |-> "", ins |-> <<>>, list |-> None]

Cmd(runner, op, variant, ins) ==
    [NoCmd EXCEPT !.runner = runner, !.op = op, !.variant = variant, !.ins = ins]

Finished ==
    [kind |-> "finished", user |-> 0, pc |-> "done", state |-> 0, cmd |-> NoCmd,
     read |-> None, err |-> ""]

NewTask(kind, u, pc, st) ==
    [Finished EXCEPT !.kind = kind, !.user = u, !.pc = pc, !.state = st]

Active(ts) == {t \in 1..Len(ts) : ts[t].pc # "done"}

CanStart == Len(tasks) < scope.tasks /\ Cardinality(Active(tasks)) < MaxActive

\* A session dict no handler and no USER_STATE entry refers to is garbage.
DeadSession == [action |-> "dead", collected |-> None, audio_target |-> None]

Referenced(us, ts) ==
    {us[u] : u \in Users} \cup {ts[t].state : t \in Active(ts)}

Gc(h, us, ts) ==
    [i \in 1..Len(h) |-> IF i \in Referenced(us, ts) THEN h[i] ELSE DeadSession]

\* The new session store, heap and coroutines of a step.
Commit(us, h, ts) ==
    /\ USER_STATE' = us
    /\ tasks' = ts
    /\ heap' = Gc(h, us, ts)

\* What `last` says of a step: the event, the invocation, the user, and where
\* they apply the callback data or the action, the message text, the commands
\* the operation spawned with their children's outcomes, the exception, and
\* for a direct call of an operation its arguments and what it computed.
Ev(ev, t, u) ==
    [ev |-> ev, t |-> t, u |-> u, arg |-> "", text |-> <<>>, cmds |-> <<>>,
     outs |-> <<>>, err |-> "", args |-> <<>>, value |-> <<>>]

Log(t, u, ev) == last' = Ev(ev, t, u)
NoLog == Log(0, 0, "step")

\* (mutant) the selection updates the action of the dict the user already has
cb_handler_update(u, data) ==
    /\ data \in scope.menu
    /\ IF data \in SelectData
       THEN /\ Len(heap) < MaxSelect
            /\ IF USER_STATE[u] = 0
               THEN Commit([USER_STATE EXCEPT ![u] = Len(heap) + 1],
                           Append(heap, FreshSession(data)), tasks)
               ELSE Commit(USER_STATE,
                           [heap EXCEPT ![USER_STATE[u]].action = ActionOf(data)], tasks)
            /\ last' = [Ev("select", 0, u) EXCEPT !.arg = data]
       ELSE /\ UNCHANGED <<heap, USER_STATE, tasks>>
            /\ NoLog
    /\ UNCHANGED <<job_dirs, tmp_files, clock, scope>>

\* cb_handler: a selection binds the user to a new dict; navigation stores nothing.
cb_handler(u, data) ==
    /\ data \in scope.menu
    /\ IF data \in SelectData
       THEN /\ Len(heap) < MaxSelect
            /\ Commit([USER_STATE EXCEPT ![u] = Len(heap) + 1],
                      Append(heap, FreshSession(data)), tasks)
            /\ last' = [Ev("select", 0, u) EXCEPT !.arg = data]
       ELSE /\ UNCHANGED <<heap, USER_STATE, tasks>>
            /\ NoLog
    /\ UNCHANGED <<job_dirs, tmp_files, clock, scope>>

\* make_job_dir: a new directory named by the user and a random suffix (taken
\* to be unique: the invocation's number).
make_job_dir(dirs) == Append(dirs, "exists")

\* A handler that returns before make_job_dir: nothing but a reply.
Reject(u, ev) ==
    /\ Log(0, 0, ev)
    /\ UNCHANGED <<USER_STATE, heap, tasks, job_dirs, tmp_files, clock, scope>>

\* Past the early returns: the handler holds the dict it read and a job directory.
Enter(kind, u, pc) ==
    /\ CanStart
    /\ tasks' = Append(tasks, NewTask(kind, u, pc, USER_STATE[u]))
    /\ job_dirs' = make_job_dir(job_dirs)
    /\ NoLog
    /\ UNCHANGED <<USER_STATE, heap, tmp_files, clock, scope>>

\* asyncio.create_task(cleanup_dir(job_dir, delay)) in a finally clause.
ScheduleCleanup(t) == [job_dirs EXCEPT ![t] = "scheduled"]

\* (mutant) the directory is removed in the finally clause itself, with no
\* task and no delay: also while the handler is still running
cleanup_dir_now(d, ok) ==
    /\ d \in 1..Len(job_dirs)
    /\ job_dirs[d] \in {"exists", "scheduled"}
    /\ job_dirs' = [job_dirs EXCEPT ![d] = IF ok THEN "removed" ELSE "cleanup_failed"]
    /\ NoLog
    /\ UNCHANGED <<USER_STATE, heap, tasks, tmp_files, clock, scope>>

\* cleanup_dir after its sleep: rmtree, whose failure is only logged.
cleanup_dir(d, ok) ==
    /\ d \in 1..Len(job_dirs)
    /\ job_dirs[d] = "scheduled"
    /\ job_dirs' = [job_dirs EXCEPT ![d] = IF ok THEN "removed" ELSE "cleanup_failed"]
    /\ NoLog
    /\ UNCHANGED <<USER_STATE, heap, tasks, tmp_files, clock, scope>>

DirExists(d) == job_dirs[d] \in {"exists", "scheduled", "cleanup_failed"}

\* ---- the process runners ----
\* What the child did: it exited in time with 0 or not, or ran past the timeout.
\* ffmpeg_tools._run_cmd kills it then; merge._run_cmd has no timeout and goes
\* on waiting, so the child's late exit status is what it sees.
ChildOutcomes(runner) ==
    IF runner = "ffmpeg_tools" THEN {"exit0", "nonzero", "timeout_killed"}
    ELSE {"exit0", "nonzero", "late_exit0", "late_nonzero"}

AllOutcomes == ChildOutcomes("ffmpeg_tools") \cup ChildOutcomes("merge")

\* The exception _run_cmd raises ("" = it returns).
RunCmdError(runner, outcome) ==
    IF runner = "ffmpeg_tools"
    THEN CASE outcome = "exit0" -> ""
           [] outcome = "timeout_killed" -> "RuntimeError: timed out"
           [] OTHER -> "RuntimeError: command failed"
    ELSE CASE outcome \in {"exit0", "late_exit0"} -> ""
           [] OTHER -> "RuntimeError: command failed"

\* ---- message texts: the words after the command ----
Texts == {<<>>, <<"x">>, <<"0">>, <<"45">>, <<"90">>, <<"180">>, <<"270">>,
          <<"5", "12">>}

\* int(word) and float(word): None is ValueError.
ParseInt(w) ==
    CASE w = "0" -> Some(0)
      [] w = "5" -> Some(5)
      [] w = "12" -> Some(12)
      [] w = "45" -> Some(45)
      [] w = "90" -> Some(90)
      [] w = "180" -> Some(180)
      [] w = "270" -> Some(270)
      [] OTHER -> None

\* float(word): the integers above, and the words Python reads as inf and nan
ParseFloat(w) ==
    IF ParseInt(w) # None THEN Some([kind |-> "fin", n |-> ParseInt(w)[1], d |-> 1])
    ELSE CASE w = "inf" -> Some([kind |-> "inf", n |-> 1, d |-> 0])
           [] w = "-inf" -> Some([kind |-> "inf", n |-> -1, d |-> 0])
           [] w = "nan" -> Some([kind |-> "nan", n |-> 0, d |-> 0])
           [] OTHER -> None

\* ---- ffmpeg_tools: what each operation does before it waits for a child ----
\* A plan is the exception raised before any subprocess ("" = none) and the
\* first command.
Plan(err, cmd) == [err |-> err, cmd |-> cmd]

\* compress, watermark, moving watermark, resize, extract audio, thumbnail
Simple(op, in) == Plan("", Cmd("ffmpeg_tools", op, "", <<in>>))

trim_video(in) == Plan("", Cmd("ffmpeg_tools", "trim", "copy", <<in>>))

replace_audio(video, audio) ==
    Plan("", Cmd("ffmpeg_tools", "audio_replace", "copy", <<video, audio>>))

\* ---- floats ----
\* A Python float: a finite n/d with d a power of two (kept in lowest terms),
\* an infinity (n is its sign) or nan.  Halving a float above 2.0 and doubling
\* one below 0.5 are exact in binary floating point, as they are here.
Float(n, d) == [kind |-> "fin", n |-> n, d |-> d]
Inf == [kind |-> "inf", n |-> 1, d |-> 0]
NegInf == [kind |-> "inf", n |-> -1, d |-> 0]
NaN == [kind |-> "nan", n |-> 0, d |-> 0]

RECURSIVE Reduce(_)
Reduce(f) ==
    IF f.kind = "fin" /\ f.d > 1 /\ f.n % 2 = 0
    THEN Reduce(Float(f.n \div 2, f.d \div 2)) ELSE f

\* x <= 0, x > 0, x > 2.0, x < 0.5: every comparison with nan is false
LeZero(f) == f.kind # "nan" /\ f.n <= 0
GtZero(f) == f.kind # "nan" /\ f.n > 0
GtTwo(f) == IF f.kind = "fin" THEN f.n > 2 * f.d ELSE f.kind = "inf" /\ f.n > 0
LtHalf(f) == IF f.kind = "fin" THEN 2 * f.n < f.d ELSE f.kind = "inf" /\ f.n < 0

\* x / 2.0 and x * 2.0
DivTwo(f) == IF f.kind = "fin" THEN Reduce(Float(f.n, 2 * f.d)) ELSE f
MulTwo(f) == IF f.kind = "fin" THEN Reduce(Float(2 * f.n, f.d)) ELSE f

\* change_speed, lines 168-180: the two while loops and the last append.  A
\* loop whose condition holds and whose body leaves `remaining` as it was
\* never ends (returns = FALSE): the call never gets to its command.
Chain(returns, filters) == [returns |-> returns, filters |-> filters]

RECURSIVE AtempoDown(_, _)
AtempoDown(remaining, filters) ==
    IF LtHalf(remaining)
    THEN IF MulTwo(remaining) = remaining THEN Chain(FALSE, filters)
         ELSE AtempoDown(MulTwo(remaining), Append(filters, Float(1, 2)))
    ELSE Chain(TRUE, Append(filters, remaining))

RECURSIVE AtempoUp(_, _)
AtempoUp(remaining, filters) ==
    IF GtTwo(remaining)
    THEN IF DivTwo(remaining) = remaining THEN Chain(FALSE, filters)
         ELSE AtempoUp(DivTwo(remaining), Append(filters, Float(2, 1)))
    ELSE AtempoDown(remaining, filters)

atempo_filters(factor) == AtempoUp(factor, <<>>)

\* (mutant) only a negative factor is refused
change_speed_allows_zero(in, factor) ==
    IF factor.kind # "nan" /\ factor.n < 0 THEN Plan("ValueError", NoCmd)
    ELSE IF ~atempo_filters(factor).returns THEN Plan("never returns", NoCmd)
    ELSE Simple("speed", in)

\* change_speed up to its command: ValueError, or the chain is built (or is
\* never finished) and then the one command.
change_speed(in, factor) ==
    IF LeZero(factor) THEN Plan("ValueError", NoCmd)
    ELSE IF ~atempo_filters(factor).returns THEN Plan("never returns", NoCmd)
    ELSE Simple("speed", in)

\* ---- the static watermark's position ----
\* position.lower() on the positions tried
Lower(position) ==
    CASE position = "CENTER" -> "center"
      [] position = "Top-Left" -> "top-left"
      [] position = "BOTTOM-RIGHT" -> "bottom-right"
      [] OTHER -> position

XY(x, y) == <<x, y>>

\* (mutant) a position that is not recognised is centred
drawtext_xy_default_center(position) ==
    LET pos == Lower(position) IN
    CASE pos = "top-left" -> XY("10", "10")
      [] pos = "top-right" -> XY("w-text_w-10", "10")
      [] pos = "bottom-left" -> XY("10", "h-text_h-10")
      [] pos = "bottom-right" -> XY("w-text_w-10", "h-text_h-10")
      [] OTHER -> XY("(w-text_w)/2", "(h-text_h)/2")

\* add_text_watermark, lines 76-87: the x and y expressions of drawtext
drawtext_xy(position) ==
    LET pos == Lower(position) IN
    CASE pos = "center" -> XY("(w-text_w)/2", "(h-text_h)/2")
      [] pos = "top-left" -> XY("10", "10")
      [] pos = "top-right" -> XY("w-text_w-10", "10")
      [] pos = "bottom-left" -> XY("10", "h-text_h-10")
      [] OTHER -> XY("w-text_w-10", "h-text_h-10")

add_text_watermark(in, position) == Simple("watermark", in)

\* (mutant) no check of the degrees: anything but 90 and 270 is taken as 180
rotate_video_unchecked(in, degrees) ==
    Plan("", Cmd("ffmpeg_tools", "rotate",
                 CASE degrees = 90 -> "transpose=1"
                   [] degrees = 270 -> "transpose=2"
                   [] OTHER -> "transpose=1,transpose=1",
                 <<in>>))

rotate_video(in, degrees) ==
    IF degrees \notin {90, 180, 270} THEN Plan("ValueError", NoCmd)
    ELSE Plan("", Cmd("ffmpeg_tools", "rotate",
                      CASE degrees = 90 -> "transpose=1"
                        [] degrees = 270 -> "transpose=2"
                        [] OTHER -> "transpose=1,transpose=1",
                      <<in>>))

\* (mutant) every operation retries with a re-encoding command
FallbackAny(cmd) ==
    IF cmd.variant # "reencode" THEN Some([cmd EXCEPT !.variant = "reencode"]) ELSE None

\* The except RuntimeError clauses of trim_video and replace_audio: the second
\* command, built when the first _run_cmd raised.
Fallback(cmd) ==
    IF cmd.op \in {"trim", "audio_replace"} /\ cmd.variant = "copy"
    THEN Some([cmd EXCEPT !.variant = "reencode"])
    ELSE None

\* An operation from its first command to its return or raise: o1 and o2 are
\* what the first and (if one is spawned) the second child do.
RunOp(cmd, o1, o2) ==
    LET e1 == RunCmdError(cmd.runner, o1) IN
    IF e1 = "" \/ Fallback(cmd) = None
    THEN [cmds |-> <<cmd>>, outs |-> <<o1>>, err |-> e1]
    ELSE [cmds |-> <<cmd, Fallback(cmd)[1]>>, outs |-> <<o1, o2>>,
          err |-> RunCmdError(cmd.runner, o2)]

\* (mutant) the job directory is made before the replied message is looked at
SendStartDirFirst(u, replied) ==
    LET st == USER_STATE[u] IN
    IF st = 0 THEN Reject(u, "send_no_action")
    ELSE IF heap[st].action = "merge_collect" THEN Reject(u, "send_use_add")
    ELSE Enter("send", u, "download")

\* ---- send_handler ----
\* lines 196-212: the three early returns, then make_job_dir.
SendStart(u, replied) ==
    LET st == USER_STATE[u] IN
    IF st = 0 THEN Reject(u, "send_no_action")
    ELSE IF heap[st].action = "merge_collect" THEN Reject(u, "send_use_add")
    ELSE IF ~replied THEN Reject(u, "send_no_reply")
    ELSE Enter("send", u, "download")

\* The finally clause of send_handler and add_for_merge, reached without an
\* exception or through the except clause.
Finish(t, us, h, ev) ==
    /\ Commit(us, h, [tasks EXCEPT ![t] = Finished])
    /\ job_dirs' = ScheduleCleanup(t)
    /\ last' = ev
    /\ UNCHANGED <<tmp_files, clock, scope>>

\* What lines 218-343 do with the session's action and the message text up to
\* the first await: "usage" (a usage reply), "raise", "run" (an operation's
\* first command), "store" (ReplaceAudio's first step) or "unknown".
Outcome(kind, err, cmd) == [kind |-> kind, err |-> err, cmd |-> cmd]

OfPlan(plan) ==
    IF plan.err = "never returns" THEN Outcome("hang", "", NoCmd)
    ELSE IF plan.err # "" THEN Outcome("raise", plan.err, NoCmd)
    ELSE Outcome("run", "", plan.cmd)

Usage == Outcome("usage", "", NoCmd)
ValueError == Outcome("raise", "ValueError", NoCmd)

Dispatch(action, text, in, target) ==
    CASE action = "compress" ->
           IF Len(text) = 0 \/ (Len(text) = 1 /\ ParseInt(text[1]) # None)
           THEN OfPlan(Simple("compress", in)) ELSE ValueError
      [] action \in {"watermark", "moving_wm"} ->
           IF Len(text) = 0 THEN Usage ELSE OfPlan(Simple(action, in))
      [] action = "trim" ->
           IF Len(text) < 2 THEN Usage ELSE OfPlan(trim_video(in))
      [] action = "resize" ->
           IF Len(text) = 0 THEN Usage
           ELSE IF ParseInt(text[1]) = None THEN ValueError
           ELSE OfPlan(Simple("resize", in))
      [] action = "speed" ->
           IF Len(text) = 0 THEN Usage
           ELSE IF ParseFloat(text[1]) = None THEN ValueError
           ELSE OfPlan(change_speed(in, ParseFloat(text[1])[1]))
      [] action = "rotate" ->
           IF Len(text) = 0 THEN Usage
           ELSE IF ParseInt(text[1]) = None THEN ValueError
           ELSE OfPlan(rotate_video(in, ParseInt(text[1])[1]))
      [] action \in {"thumb", "audio_extract"} -> OfPlan(Simple(action, in))
      [] action = "audio_replace" ->
           IF target = None THEN Outcome("store", "", NoCmd)
           ELSE OfPlan(replace_audio(target[1], in))
      [] OTHER -> Outcome("unknown", "", NoCmd)

\* (mutant) the target is read and left in the dict
KeepTarget(h, st) == h

\* line 335, state.pop("audio_target")
PopTarget(h, st) == [h EXCEPT ![st].audio_target = None]

\* lines 214-343: the download, then the branch of the session's action up to
\* its first await on a child (or to the end, when it spawns none).
SendProcess(t, downloaded, text) ==
    /\ t \in Active(tasks) /\ tasks[t].kind = "send" /\ tasks[t].pc = "download"
    /\ LET st == tasks[t].state
           u == tasks[t].user
           s == heap[st]
           o == Dispatch(s.action, text, InputPath(t), s.audio_target)
           ev == [Ev("send_done", t, u) EXCEPT !.arg = s.action, !.text = text]
       IN IF ~downloaded
          THEN Finish(t, USER_STATE, heap,
                      [ev EXCEPT !.err = "DownloadError", !.text = <<>>])
          ELSE CASE o.kind = "run" ->
                 \* ReplaceAudio's second step pops the target and stores the dict
                 /\ IF s.action = "audio_replace"
                    THEN Commit([USER_STATE EXCEPT ![u] = st], PopTarget(heap, st),
                                [tasks EXCEPT ![t].pc = "run", ![t].cmd = o.cmd])
                    ELSE Commit(USER_STATE, heap,
                                [tasks EXCEPT ![t].pc = "run", ![t].cmd = o.cmd])
                 /\ last' = [ev EXCEPT !.ev = "send_spawn", !.cmds = <<o.cmd>>]
                 /\ UNCHANGED <<job_dirs, tmp_files, clock, scope>>
            [] o.kind = "raise" ->
                 Finish(t, USER_STATE, heap, [ev EXCEPT !.err = o.err])
            [] o.kind = "store" ->
                 Finish(t, [USER_STATE EXCEPT ![u] = st],
                        [heap EXCEPT ![st].audio_target = Some(InputPath(t))],
                        [ev EXCEPT !.ev = "send_stored"])
            [] o.kind = "hang" ->
                 \* the handler never leaves change_speed's loop
                 /\ Commit(USER_STATE, heap, [tasks EXCEPT ![t].pc = "hung"])
                 /\ last' = [ev EXCEPT !.ev = "send_hangs"]
                 /\ UNCHANGED <<job_dirs, tmp_files, clock, scope>>
            [] OTHER -> Finish(t, USER_STATE, heap, [ev EXCEPT !.ev = "send_" \o o.kind])

\* The operation from its first child's exit to its return or raise, the upload
\* and status.delete(), the except clause on any exception, and the finally.
SendFinish(t, o1, o2, uploaded) ==
    /\ t \in Active(tasks) /\ tasks[t].kind = "send" /\ tasks[t].pc = "run"
    /\ {o1, o2} \subseteq ChildOutcomes(tasks[t].cmd.runner)
    \* (a second child's outcome, or the upload's, is only drawn when there is one)
    /\ Len(RunOp(tasks[t].cmd, o1, o2).cmds) = 1 => o2 = o1
    /\ RunOp(tasks[t].cmd, o1, o2).err # "" => uploaded
    /\ LET r == RunOp(tasks[t].cmd, o1, o2)
           u == tasks[t].user
       IN Finish(t, USER_STATE, heap,
                 [Ev("send_done", t, u) EXCEPT
                    !.arg = tasks[t].cmd.op,
                    !.cmds = r.cmds, !.outs = r.outs,
                    !.err = IF r.err # "" THEN r.err
                            ELSE IF uploaded THEN "" ELSE "UploadError"])


\* ---- add_for_merge ----
\* lines 356-366: the two early returns, then make_job_dir.
AddStart(u, replied) ==
    LET st == USER_STATE[u] IN
    IF st = 0 \/ heap[st].action # "merge_collect" THEN Reject(u, "add_no_session")
    ELSE IF ~replied THEN Reject(u, "add_no_reply")
    ELSE Enter("add", u, "download")

\* (mutant) the new path is put in front of the list
AddDownloadInFront(t, downloaded) ==
    /\ t \in Active(tasks) /\ tasks[t].kind = "add" /\ tasks[t].pc = "download"
    /\ LET st == tasks[t].state
           u == tasks[t].user
           ev == Ev("add_done", t, u)
       IN IF downloaded
          THEN Finish(t, [USER_STATE EXCEPT ![u] = st],
                      [heap EXCEPT ![st].collected =
                          Some(<<InputPath(t)>> \o heap[st].collected[1])],
                      ev)
          ELSE Finish(t, USER_STATE, heap, [ev EXCEPT !.err = "DownloadError"])

\* lines 368-377: the download, the append to the dict read at entry and the
\* store of that dict; the except clause when the download raised; the finally.
AddDownload(t, downloaded) ==
    /\ t \in Active(tasks) /\ tasks[t].kind = "add" /\ tasks[t].pc = "download"
    /\ LET st == tasks[t].state
           u == tasks[t].user
           ev == Ev("add_done", t, u)
       IN IF downloaded
          THEN Finish(t, [USER_STATE EXCEPT ![u] = st],
                      [heap EXCEPT ![st].collected =
                          Some(Append(heap[st].collected[1], InputPath(t)))],
                      ev)
          ELSE Finish(t, USER_STATE, heap, [ev EXCEPT !.err = "DownloadError"])

\* ---- list descriptors ----
\* One line of a descriptor: file '<absolute path>'.
Line(p) == <<"file", p>>

\* (mutant) a path already listed is not listed again
LinesDistinct(paths) ==
    LET first == {i \in 1..Len(paths) : \A j \in 1..(i - 1) : paths[j] # paths[i]}
        Idx(k) == CHOOSE i \in first : Cardinality({j \in first : j <= i}) = k
    IN [k \in 1..Cardinality(first) |-> Line(paths[Idx(k)])]

Lines(paths) == [i \in 1..Len(paths) |-> Line(paths[i])]

WriteFile(files, name, content) ==
    [n \in DOMAIN files \cup {name} |-> IF n = name THEN content ELSE files[n]]

Unlink(files, name) == [n \in DOMAIN files \ {name} |-> files[n]]

\* Path(output_path).stem
Stem(out) == IF out.name = "merged.mp4" THEN "merged" ELSE out.name

\* os.getpid(): one process
getpid == 1

\* ffmpeg_tools.merge_videos, lines 51-60: the descriptor's name comes from the
\* output file's stem and the process id; no check of the inputs.
ConcatListName(out) == [prefix |-> "concat", stem |-> Stem(out), n |-> getpid]

ffmpeg_tools_merge_videos(input_paths, out) ==
    [err |-> "",
     cmd |-> [Cmd("ffmpeg_tools", "merge", "", input_paths)
                EXCEPT !.list = Some(ConcatListName(out))]]

\* merge.merge_videos, lines 48-75: at least two inputs, each existing; the
\* descriptor's name comes from the event loop's time in ms.
FileExists(p) == IF p.dir = 0 THEN p.name # "missing.mp4" ELSE DirExists(p.dir)

FilesListName(ms) == [prefix |-> "files", stem |-> "", n |-> ms]

merge_merge_videos(input_paths, ms) ==
    IF Len(input_paths) < 2 THEN [err |-> "ValueError", cmd |-> NoCmd]
    ELSE IF \E i \in 1..Len(input_paths) : ~FileExists(input_paths[i])
    THEN [err |-> "FileNotFoundError", cmd |-> NoCmd]
    ELSE [err |-> "",
          cmd |-> [Cmd("merge", "merge", "", input_paths)
                     EXCEPT !.list = Some(FilesListName(ms))]]

\* Both merge_videos write the descriptor and spawn the child with no await
\* between the two.
StartMerge(t, ts, plan) ==
    /\ tasks' = [ts EXCEPT ![t].pc = "spawned", ![t].cmd = plan.cmd]
    /\ tmp_files' = WriteFile(tmp_files, plan.cmd.list[1], Lines(plan.cmd.ins))

\* The concat child opens its -i file: the descriptor as it is at that moment,
\* or nothing when the file is gone.
ChildOpen(t) ==
    /\ t \in Active(tasks) /\ tasks[t].pc = "spawned"
    /\ LET name == tasks[t].cmd.list[1] IN
       tasks' = [tasks EXCEPT ![t].pc = "run",
                   ![t].read = IF name \in DOMAIN tmp_files
                               THEN Some(tmp_files[name]) ELSE None]
    /\ NoLog
    /\ UNCHANGED <<USER_STATE, heap, job_dirs, tmp_files, clock, scope>>

\* (mutant) the descriptor is left behind
KeepList(files, name) == files

\* The finally clauses of the two merge_videos: unlink the descriptor
\* (merge.py when it exists; ffmpeg_tools.py ignoring the error when not).
RemoveList(files, name) == Unlink(files, name)

\* (mutant) one collected file is enough
DoneStartAtLeastOne(u) ==
    LET st == USER_STATE[u] IN
    IF st = 0 \/ heap[st].action # "merge_collect" THEN Reject(u, "done_no_session")
    ELSE IF Len(heap[st].collected[1]) < 1 THEN Reject(u, "done_too_few")
    ELSE Enter("done", u, "reply")

\* ---- done_merge ----
\* lines 384-395: the two early returns, then make_job_dir.
DoneStart(u) ==
    LET st == USER_STATE[u] IN
    IF st = 0 \/ heap[st].action # "merge_collect" THEN Reject(u, "done_no_session")
    ELSE IF Len(heap[st].collected[1]) < 2 THEN Reject(u, "done_too_few")
    ELSE Enter("done", u, "reply")

\* line 396, outside the try block: when the status reply raises, the handler
\* ends there.  Otherwise line 398 calls merge_videos with the list object read
\* at entry, as it is now.
DoneMerge(t, replied) ==
    /\ t \in Active(tasks) /\ tasks[t].kind = "done" /\ tasks[t].pc = "reply"
    /\ LET u == tasks[t].user
           files == heap[tasks[t].state].collected[1]
           plan == ffmpeg_tools_merge_videos(files, OutPath(t, "merged.mp4"))
       IN IF replied
          THEN /\ StartMerge(t, tasks, plan)
               /\ last' = [Ev("done_spawn", t, u) EXCEPT !.cmds = <<plan.cmd>>,
                                                          !.args = files]
               /\ UNCHANGED <<USER_STATE, heap, job_dirs, clock, scope>>
          ELSE /\ Commit(USER_STATE, heap, [tasks EXCEPT ![t] = Finished])
               /\ last' = [Ev("done_aborted", t, u) EXCEPT !.err = "ReplyError"]
               /\ UNCHANGED <<job_dirs, tmp_files, clock, scope>>

\* merge_videos from the child's exit on: _run_cmd returns or raises and the
\* finally clause unlinks the descriptor.  A child that found no descriptor
\* does not exit with 0.
MergeReturn(t, outcome) ==
    /\ t \in Active(tasks) /\ tasks[t].pc = "run" /\ tasks[t].cmd.op = "merge"
    /\ outcome \in ChildOutcomes(tasks[t].cmd.runner)
    /\ tasks[t].read = None => RunCmdError(tasks[t].cmd.runner, outcome) # ""
    /\ tmp_files' = RemoveList(tmp_files, tasks[t].cmd.list[1])

DoneRun(t, outcome) ==
    /\ MergeReturn(t, outcome)
    /\ tasks[t].kind = "done"
    /\ LET e == RunCmdError(tasks[t].cmd.runner, outcome) IN
       /\ tasks' = [tasks EXCEPT ![t].pc = IF e = "" THEN "upload" ELSE "except",
                                 ![t].err = e]
       /\ last' = [Ev("merge_returned", t, tasks[t].user) EXCEPT
                     !.cmds = <<tasks[t].cmd>>, !.outs = <<outcome>>, !.err = e]
    /\ UNCHANGED <<USER_STATE, heap, job_dirs, clock, scope>>

\* (mutant) the finally clause empties the whole store
DoneFinalClearAll(t, uploaded) ==
    /\ t \in Active(tasks) /\ tasks[t].kind = "done"
    /\ tasks[t].pc \in {"upload", "except"}
    /\ tasks[t].pc = "except" => uploaded
    /\ LET u == tasks[t].user IN
       /\ Commit([v \in Users |-> 0], heap, [tasks EXCEPT ![t] = Finished])
       /\ last' = [Ev("done_final", t, u) EXCEPT
                     !.err = IF tasks[t].err # "" THEN tasks[t].err
                             ELSE IF uploaded THEN "" ELSE "UploadError"]
    /\ job_dirs' = ScheduleCleanup(t)
    /\ UNCHANGED <<tmp_files, clock, scope>>

\* lines 399-407: the upload (or the except clause's status edit), then the
\* finally clause: USER_STATE.pop and the cleanup task.
DoneFinal(t, uploaded) ==
    /\ t \in Active(tasks) /\ tasks[t].kind = "done"
    /\ tasks[t].pc \in {"upload", "except"}
    /\ tasks[t].pc = "except" => uploaded
    /\ LET u == tasks[t].user IN
       /\ Commit([USER_STATE EXCEPT ![u] = 0], heap, [tasks EXCEPT ![t] = Finished])
       /\ last' = [Ev("done_final", t, u) EXCEPT
                     !.err = IF tasks[t].err # "" THEN tasks[t].err
                             ELSE IF uploaded THEN "" ELSE "UploadError"]
    /\ job_dirs' = ScheduleCleanup(t)
    /\ UNCHANGED <<tmp_files, clock, scope>>

\* ---- a caller of merge.merge_videos ----
\* The files a direct caller may name: one exists, one does not.
LibFiles == {[dir |-> 0, name |-> "a.mp4"], [dir |-> 0, name |-> "missing.mp4"]}

RECURSIVE SeqsUpTo(_, _)
SeqsUpTo(S, n) ==
    IF n = 0 THEN {<<>>}
    ELSE LET shorter == SeqsUpTo(S, n - 1) IN
         shorter \cup {Append(q, x) : q \in {r \in shorter : Len(r) = n - 1}, x \in S}

\* The call up to its first await: the checks raise, or the descriptor is
\* written and the child spawned.  The loop's clock may have moved on since the
\* last call (adv) or not.
LibCall(inputs, adv) ==
    /\ "merge.py" \in scope.menu
    /\ LET plan == merge_merge_videos(inputs, clock + adv) IN
       IF plan.err # ""
       THEN /\ last' = [Ev("lib_raised", 0, 0) EXCEPT !.err = plan.err, !.args = inputs]
            /\ UNCHANGED <<USER_STATE, heap, tasks, job_dirs, tmp_files, clock, scope>>
       ELSE /\ CanStart
            /\ StartMerge(Len(tasks) + 1, Append(tasks, NewTask("lib", 0, "spawned", 0)), plan)
            /\ job_dirs' = Append(job_dirs, "none")
            /\ clock' = clock + adv
            /\ last' = [Ev("lib_spawn", Len(tasks) + 1, 0) EXCEPT !.cmds = <<plan.cmd>>,
                                                                  !.args = inputs]
            /\ UNCHANGED <<USER_STATE, heap, scope>>

\* ---- a caller of ffmpeg_tools.merge_videos ----
\* The call up to its first await, with an output named as done_merge names it:
\* the descriptor is written and the child spawned, whatever the inputs are.
ToolsCall(inputs) ==
    /\ "ffmpeg_tools.py" \in scope.menu
    /\ CanStart
    /\ LET plan == ffmpeg_tools_merge_videos(inputs, OutPath(0, "merged.mp4")) IN
       /\ StartMerge(Len(tasks) + 1, Append(tasks, NewTask("lib", 0, "spawned", 0)), plan)
       /\ last' = [Ev("tools_spawn", Len(tasks) + 1, 0) EXCEPT !.cmds = <<plan.cmd>>,
                                                                !.args = inputs]
    /\ job_dirs' = Append(job_dirs, "none")
    /\ UNCHANGED <<USER_STATE, heap, clock, scope>>

LibRun(t, outcome) ==
    /\ MergeReturn(t, outcome)
    /\ tasks[t].kind = "lib"
    /\ Commit(USER_STATE, heap, [tasks EXCEPT ![t] = Finished])
    /\ last' = [Ev("merge_returned", t, 0) EXCEPT
                  !.cmds = <<tasks[t].cmd>>, !.outs = <<outcome>>,
                  !.err = RunCmdError(tasks[t].cmd.runner, outcome)]
    /\ UNCHANGED <<job_dirs, clock, scope>>

\* ---- callers of change_speed and add_text_watermark ----
\* The factors and positions tried.
MaxNum == 9
Dens == {1, 2, 4, 8, 16}

Factors ==
    {Reduce(Float(n, d)) : n \in (-1)..MaxNum, d \in Dens} \cup {Inf, NegInf, NaN}

Positions ==
    {"center", "top-left", "top-right", "bottom-left", "bottom-right",
     "CENTER", "Top-Left", "BOTTOM-RIGHT", "unknown-value", "middle", ""}

\* A whole call: the plan, then the command's child and the return or raise.
\* A call that never returns leaves the event loop in its loop: nothing follows.
Call(name, arg, plan, value, outcome) ==
    /\ name \in scope.menu
    /\ last.ev # "call_hangs"
    /\ outcome \in ChildOutcomes("ffmpeg_tools")
    /\ IF plan.err = "never returns"
       THEN last' = [Ev("call_hangs", 0, 0) EXCEPT !.arg = name, !.args = <<arg>>]
       ELSE IF plan.err # ""
       THEN last' = [Ev("call_done", 0, 0) EXCEPT !.arg = name, !.args = <<arg>>,
                                                  !.err = plan.err]
       ELSE LET r == RunOp(plan.cmd, outcome, outcome) IN
            last' = [Ev("call_done", 0, 0) EXCEPT !.arg = name, !.args = <<arg>>,
                        !.value = value, !.cmds = r.cmds, !.outs = r.outs,
                        !.err = r.err]
    /\ plan.err # "" => outcome = "exit0"
    /\ UNCHANGED <<USER_STATE, heap, tasks, job_dirs, tmp_files, clock, scope>>

SpeedCall(factor, outcome) ==
    Call("change_speed", factor, change_speed(OutPath(0, "in.mp4"), factor),
         atempo_filters(factor).filters, outcome)

WatermarkCall(position, outcome) ==
    Call("add_text_watermark", position,
         add_text_watermark(OutPath(0, "in.mp4"), position),
         drawtext_xy(position), outcome)

\* ---- the runs explored ----
\* Every button with few invocations, or the two multi-step flows (merge,
\* ReplaceAudio) and merge.py's callers with more.
MaxInputs == 2

Scopes ==
    {[menu |-> CallbackData, tasks |-> MaxTasksWide],
     [menu |-> {"misc_merge", "menu_back"}, tasks |-> MaxTasks],
     [menu |-> {"audio_replace", "menu_back"}, tasks |-> MaxTasks],
     [menu |-> {"merge.py"}, tasks |-> MaxTasks],
     [menu |-> {"ffmpeg_tools.py"}, tasks |-> MaxTasks],
     [menu |-> {"change_speed", "add_text_watermark"}, tasks |-> MaxTasksWide]}

Init ==
    /\ USER_STATE = [u \in Users |-> 0]
    /\ heap = <<>>
    /\ tasks = <<>>
    /\ job_dirs = <<>>
    /\ tmp_files = <<>>
    /\ clock = 0
    /\ last = Ev("init", 0, 0)
    /\ scope \in Scopes

Tasks == 1..MaxTasks

Next ==
    \/ \E u \in Users : \E data \in CallbackData : cb_handler(u, data)
    \/ \E u \in Users : \E replied \in BOOLEAN : SendStart(u, replied)
    \/ \E t \in Tasks : \E ok \in BOOLEAN : \E text \in Texts : SendProcess(t, ok, text)
    \/ \E t \in Tasks : \E o1, o2 \in ChildOutcomes("ffmpeg_tools") : \E ok \in BOOLEAN :
          SendFinish(t, o1, o2, ok)
    \/ \E u \in Users : \E replied \in BOOLEAN : AddStart(u, replied)
    \/ \E t \in Tasks : \E ok \in BOOLEAN : AddDownload(t, ok)
    \/ \E u \in Users : DoneStart(u)
    \/ \E t \in Tasks : \E ok \in BOOLEAN : DoneMerge(t, ok)
    \/ \E t \in Tasks : ChildOpen(t)
    \/ \E t \in Tasks : \E o \in AllOutcomes : DoneRun(t, o)
    \/ \E t \in Tasks : \E ok \in BOOLEAN : DoneFinal(t, ok)
    \/ \E inputs \in SeqsUpTo(LibFiles, MaxInputs) : \E adv \in {0, 1} : LibCall(inputs, adv)
    \/ \E inputs \in SeqsUpTo(LibFiles, MaxInputs) : ToolsCall(inputs)
    \/ \E t \in Tasks : \E o \in AllOutcomes : LibRun(t, o)
    \/ \E factor \in Factors : \E o \in AllOutcomes : SpeedCall(factor, o)
    \/ \E position \in Positions : \E o \in AllOutcomes : WatermarkCall(position, o)
    \/ \E d \in Tasks : \E ok \in BOOLEAN : cleanup_dir(d, ok)

Spec == Init /\ [][Next]_vars

\* ---- two users merging, each user's requests one after the other ----
\* The front end the concurrency model asks for: a user's next request comes
\* when that user's last handler has ended.  Two users select Merge, add their
\* files one at a time (the downloads and the removals of the job directories
\* succeed) and send /done; the /done handlers of the two users may overlap.
MaxTasksOverlap == 6

Serial(u) == \A t \in Active(tasks) : tasks[t].user # u

InitOverlap ==
    /\ USER_STATE = [u \in Users |-> 0]
    /\ heap = <<>>
    /\ tasks = <<>>
    /\ job_dirs = <<>>
    /\ tmp_files = <<>>
    /\ clock = 0
    /\ last = Ev("init", 0, 0)
    /\ scope = [menu |-> {"misc_merge"}, tasks |-> MaxTasksOverlap]

NextOverlap ==
    \/ \E u \in Users : Serial(u) /\ cb_handler(u, "misc_merge")
    \/ \E u \in Users : Active(tasks) = {} /\ AddStart(u, TRUE)
    \/ \E t \in 1..MaxTasksOverlap : AddDownload(t, TRUE)
    \/ \E u \in Users : Serial(u) /\ DoneStart(u)
    \/ \E t \in 1..MaxTasksOverlap : \E ok \in BOOLEAN : DoneMerge(t, ok)
    \/ \E t \in 1..MaxTasksOverlap : ChildOpen(t)
    \/ \E t \in 1..MaxTasksOverlap : \E o \in ChildOutcomes("ffmpeg_tools") : DoneRun(t, o)
    \/ \E t \in 1..MaxTasksOverlap : \E ok \in BOOLEAN : DoneFinal(t, ok)
    \/ \E d \in 1..MaxTasksOverlap : cleanup_dir(d, TRUE)

SpecOverlap == InitOverlap /\ [][NextOverlap]_vars

\* ---- one user's requests overlapping ----
\* The handlers as main.py registers them, with no per-user queue: a user who
\* selected Merge sends /add and /done while an earlier handler of theirs is
\* still awaiting its download, its child or its upload.
MaxTasksRace == 4

InitRace ==
    /\ USER_STATE = [u \in Users |-> 0]
    /\ heap = <<>>
    /\ tasks = <<>>
    /\ job_dirs = <<>>
    /\ tmp_files = <<>>
    /\ clock = 0
    /\ last = Ev("init", 0, 0)
    /\ scope = [menu |-> {"misc_merge"}, tasks |-> MaxTasksRace]

NextRace ==
    \/ \E u \in Users : cb_handler(u, "misc_merge")
    \/ \E u \in Users : \E replied \in BOOLEAN : AddStart(u, replied)
    \/ \E t \in 1..MaxTasksRace : \E ok \in BOOLEAN : AddDownload(t, ok)
    \/ \E u \in Users : DoneStart(u)
    \/ \E t \in 1..MaxTasksRace : \E ok \in BOOLEAN : DoneMerge(t, ok)
    \/ \E t \in 1..MaxTasksRace : ChildOpen(t)
    \/ \E t \in 1..MaxTasksRace : \E o \in ChildOutcomes("ffmpeg_tools") : DoneRun(t, o)
    \/ \E t \in 1..MaxTasksRace : \E ok \in BOOLEAN : DoneFinal(t, ok)
    \/ \E d \in 1..MaxTasksRace : \E ok \in BOOLEAN : cleanup_dir(d, ok)

SpecRace == InitRace /\ [][NextRace]_vars


\* ======================= the claims =======================

HasSession(u) == USER_STATE[u] # 0
Session(u) == heap[USER_STATE[u]]
Failed(outcome) == outcome \notin {"exit0", "late_exit0"}
Overran(outcome) == outcome \in {"timeout_killed", "late_exit0", "late_nonzero"}

\* C1: a menu selection B leaves the user's session equal to the fresh session
\* of B, in a new dict that no handler holds: nothing of an earlier selection A
\* (its action, its collected list, its stored target) is in it.
C1_SelectionOverwrites ==
    last.ev = "select" =>
       /\ HasSession(last.u)
       /\ Session(last.u) = FreshSession(last.arg)
       /\ \A t \in Active(tasks) : tasks[t].state # USER_STATE[last.u]

\* C1 witness: B was just selected while a handler of the same user still holds
\* A's dict, which has collected files.
C1_Witness ==
    /\ last.ev = "select"
    /\ \E t \in Active(tasks) :
          /\ tasks[t].user = last.u
          /\ tasks[t].state # USER_STATE[last.u]
          /\ heap[tasks[t].state].collected # None
          /\ Len(heap[tasks[t].state].collected[1]) > 0

\* C2: once a /send that ran its operation has ended (a single-step operation
\* or ReplaceAudio's mux), the session store has no entry for the user.
C2_SendReturnsToIdle ==
    (last.ev = "send_done" /\ last.cmds # <<>>) => ~HasSession(last.u)

\* C3: when the /done handler of a merge_collect session with at least 2 files
\* has ended, however it ended, the user has no session.
C3_DoneClearsSession ==
    last.ev \in {"done_final", "done_aborted"} => ~HasSession(last.u)

\* C4: /done in a merge_collect session with fewer than 2 collected files is
\* rejected: the session store, the sessions, the job directories, the
\* descriptors and the handlers with their children are as before.
C4_DoneTooFewRejected ==
    [][\A u \in Users :
          (/\ HasSession(u)
           /\ Session(u).action = "merge_collect"
           /\ Len(Session(u).collected[1]) < 2
           /\ DoneStart(u)) =>
             /\ last'.ev = "done_too_few"
             /\ UNCHANGED <<USER_STATE, heap, tasks, job_dirs, tmp_files>>]_vars

\* C4 witness: a /done was just rejected for too few files and a session has
\* exactly one collected file.
C4_Witness ==
    /\ last.ev = "done_too_few"
    /\ \E u \in Users :
          /\ HasSession(u)
          /\ Session(u).action = "merge_collect"
          /\ Len(Session(u).collected[1]) = 1

\* C5: in a ReplaceAudio session the /send that finds no stored target stores
\* its download as the target and spawns nothing; the /send that finds one runs
\* the mux on (target, its download), stores the session without the target,
\* and the end of the mux, good or bad, changes no session.
C5_ReplaceAudioTwoSteps ==
    [][\A t \in 1..Len(tasks) :
          LET st == tasks[t].state
              u == tasks[t].user
          IN (tasks[t].kind = "send" /\ tasks'[t] # tasks[t]
                /\ heap[st].action = "audio_replace") =>
               /\ (last'.ev = "send_stored") =>
                     /\ heap[st].audio_target = None
                     /\ USER_STATE'[u] = st
                     /\ heap'[st].audio_target = Some(InputPath(t))
                     /\ last'.cmds = <<>> /\ tasks'[t].pc = "done"
               /\ (tasks[t].pc = "download" /\ heap[st].audio_target # None
                     /\ last'.err # "DownloadError") =>
                     /\ tasks'[t].pc = "run"
                     /\ tasks'[t].cmd.op = "audio_replace"
                     /\ tasks'[t].cmd.ins = <<heap[st].audio_target[1], InputPath(t)>>
                     /\ USER_STATE'[u] = st
                     /\ heap'[st].audio_target = None
               /\ (tasks[t].pc = "run") =>
                     /\ USER_STATE' = USER_STATE
                     /\ \A v \in Users : HasSession(v) => heap'[USER_STATE[v]] = Session(v)]_vars

\* C5 witness: a mux has failed and ended, and the user's ReplaceAudio session
\* holds no target.
C5_Witness ==
    /\ last.ev = "send_done" /\ last.arg = "audio_replace"
    /\ Len(last.cmds) = 2 /\ last.err # ""
    /\ Len(last.cmds[1].ins) = 2
    /\ HasSession(last.u)
    /\ Session(last.u).action = "audio_replace"
    /\ Session(last.u).audio_target = None

\* C6: every job directory of a handler that has ended has its
\* cleanup scheduled (or already run).
C6_CleanupAlwaysScheduled ==
    \A t \in 1..Len(tasks) :
       (tasks[t].pc = "done" /\ job_dirs[t] # "none") =>
          job_dirs[t] \in {"scheduled", "removed", "cleanup_failed"}

\* C7: when merge_videos returns or raises, the descriptor it wrote is not in
\* TMP_DIR.
C7_DescriptorRemoved ==
    last.ev = "merge_returned" => last.cmds[1].list[1] \notin DOMAIN tmp_files

\* C7 witness: ffmpeg_tools.merge_videos has raised after its child failed.
C7_Witness ==
    /\ last.ev = "merge_returned"
    /\ last.cmds[1].runner = "ffmpeg_tools"
    /\ last.err # ""

\* C8: an operation spawns a second command exactly when it is Trim or
\* ReplaceAudio and its first command failed; the second is the re-encoding
\* variant of the stream-copy first; and when the last command spawned failed,
\* its failure is what the caller gets.
C8_OneFallbackOnlyForTrimAndReplace ==
    (last.ev \in {"send_done", "merge_returned"} /\ last.cmds # <<>>) =>
       LET c == last.cmds
           o == last.outs
       IN /\ Len(c) <= 2 /\ Len(o) = Len(c)
          /\ Len(c) = 2 <=> (c[1].op \in {"trim", "audio_replace"} /\ Failed(o[1]))
          /\ Len(c) = 2 =>
                /\ c[1].variant = "copy" /\ c[2].variant = "reencode"
                /\ c[2].ins = c[1].ins /\ c[2].op = c[1].op
          /\ Failed(o[Len(o)]) =>
                last.err \in {"RuntimeError: command failed", "RuntimeError: timed out"}

\* C8 witness: a Trim whose stream-copy command and whose re-encoding command
\* both failed has ended with the failure.
C8_Witness ==
    /\ last.ev = "send_done" /\ last.arg = "trim"
    /\ Len(last.cmds) = 2
    /\ last.err = "RuntimeError: command failed"

\* C9: a child that ran past the timeout was killed and the call
\* reports the timeout; a child that exited non-zero in time reports a failed
\* command.
C9_TimeoutIsNotCommandFailed ==
    (last.ev \in {"send_done", "merge_returned"} /\ last.cmds # <<>>) =>
       LET o == last.outs[Len(last.outs)] IN
       /\ Overran(o) => (o = "timeout_killed" /\ last.err = "RuntimeError: timed out")
       /\ o = "nonzero" => last.err = "RuntimeError: command failed"

\* C10: a Rotate request whose degrees are not 90, 180 or 270 ends with
\* ValueError and no subprocess.
InvalidDegrees(text) ==
    /\ Len(text) > 0
    /\ ParseInt(text[1]) # None
    /\ ParseInt(text[1])[1] \notin {90, 180, 270}

C10_RotateRejectsOtherDegrees ==
    (last.ev \in {"send_done", "send_spawn"} /\ last.arg = "rotate"
       /\ InvalidDegrees(last.text)) =>
          /\ last.ev = "send_done"
          /\ last.err = "ValueError"
          /\ last.cmds = <<>>
          /\ tasks[last.t].pc = "done"

\* C10 witness: a Rotate by 45 degrees was just rejected.
C10_Witness ==
    /\ last.ev = "send_done" /\ last.arg = "rotate"
    /\ last.text = <<"45">> /\ last.err = "ValueError"

\* A merge_videos was just called: it raised before its first await, or wrote
\* its descriptor and spawned its child.
MergeCalled == last.ev \in {"lib_raised", "lib_spawn", "tools_spawn", "done_spawn"}
MergeSpawned == last.ev \in {"lib_spawn", "tools_spawn", "done_spawn"}

\* C11: a merge_videos called with 0 or 1 input raises ValueError and neither
\* writes a descriptor nor spawns a child.
C11_MergeRejectsFewInputs ==
    (MergeCalled /\ Len(last.args) < 2) =>
       /\ last.ev = "lib_raised"
       /\ last.err = "ValueError"
       /\ last.cmds = <<>>

\* C18: a merge_videos called with 2 or more inputs that spawns its child has
\* written a descriptor with one line per input, in the order of the inputs,
\* duplicates kept, and the child's command names that descriptor.
C18_DescriptorOneLinePerInput ==
    (MergeSpawned /\ Len(last.args) >= 2) =>
       LET c == last.cmds[1] IN
       /\ c.list # None
       /\ c.list[1] \in DOMAIN tmp_files
       /\ Len(tmp_files[c.list[1]]) = Len(last.args)
       /\ \A i \in 1..Len(last.args) : tmp_files[c.list[1]][i] = <<"file", last.args[i]>>

\* C18 witness: a merge of the same file twice was just spawned.
C18_Witness ==
    /\ MergeSpawned
    /\ Len(last.args) = 2
    /\ last.args[1] = last.args[2]

\* C19: a merge_videos called with 2 or more inputs of which one does not exist
\* raises FileNotFoundError and neither writes a descriptor nor spawns a child.
C19_MergeRejectsMissingInput ==
    (MergeCalled /\ Len(last.args) >= 2
       /\ \E i \in 1..Len(last.args) : ~FileExists(last.args[i])) =>
          /\ last.ev = "lib_raised"
          /\ last.err = "FileNotFoundError"
          /\ last.cmds = <<>>

\* The session of user v in a session store and heap: nothing, or the dict.
SessionIn(us, h, v) == IF us[v] = 0 THEN None ELSE Some(h[us[v]])

\* C15: a step that changes the session of a user v (its presence, or the
\* content of its dict) is a step of a handler of v: v's menu selection, or one
\* of v's /send, /add or /done invocations.  Steps for another user leave it.
C15_OtherUsersUntouched ==
    [][\A v \in Users :
          SessionIn(USER_STATE', heap', v) # SessionIn(USER_STATE, heap, v) =>
             \/ last'.ev = "select" /\ last'.u = v
             \/ \E t \in 1..Len(tasks) : tasks[t].user = v /\ tasks'[t] # tasks[t]]_vars

\* C15 witness: a /done of one user has just popped that user's session while
\* the other user has a merge_collect session.
C15_Witness ==
    /\ last.ev = "done_final"
    /\ ~HasSession(last.u)
    /\ \E v \in Users :
          /\ v # last.u
          /\ HasSession(v)
          /\ Session(v) = FreshSession("misc_merge")

\* C16: a cleanup runs only for a job whose handler has ended (its result was
\* reported), and whether it removes the directory or fails, it changes no
\* session, no handler, no descriptor and no other job directory.
C16_CleanupDecoupled ==
    [][\A d \in 1..Len(job_dirs) :
          (job_dirs'[d] \in {"removed", "cleanup_failed"} /\ job_dirs'[d] # job_dirs[d]) =>
             /\ job_dirs[d] = "scheduled"
             /\ tasks[d].pc = "done"
             /\ UNCHANGED <<USER_STATE, heap, tasks, tmp_files>>
             /\ \A e \in 1..Len(job_dirs) : e # d => job_dirs'[e] = job_dirs[e]]_vars

\* C16 witness: a cleanup has failed while another handler is running and a
\* user has a session.
C16_Witness ==
    /\ \E d \in 1..Len(job_dirs) : job_dirs[d] = "cleanup_failed"
    /\ Active(tasks) # {}
    /\ \E u \in Users : HasSession(u)

\* C20: the step that ends an /add whose download succeeded appends the
\* downloaded path to the end of the collected list of the dict the handler
\* read, keeps what was there, and stores that dict as the user's session; the
\* step that ends an /add whose download failed, and an /add of a user with no
\* session or with another action, leave every session as it was.
C20_AddAppendsOne ==
    [][/\ \A t \in 1..Len(tasks) :
            (tasks[t].kind = "add" /\ tasks'[t] # tasks[t]) =>
               LET st == tasks[t].state
                   u == tasks[t].user
               IN IF last'.err = ""
                  THEN /\ USER_STATE'[u] = st
                       /\ heap'[st].action = "merge_collect"
                       /\ heap'[st].collected =
                             Some(Append(heap[st].collected[1], InputPath(t)))
                       /\ \A v \in Users \ {u} : USER_STATE'[v] = USER_STATE[v]
                  ELSE /\ USER_STATE' = USER_STATE
                       /\ \A v \in Users :
                             SessionIn(USER_STATE', heap', v) = SessionIn(USER_STATE, heap, v)
       /\ \A u \in Users : \A replied \in BOOLEAN :
            (/\ ~HasSession(u) \/ Session(u).action # "merge_collect"
             /\ AddStart(u, replied)) =>
               /\ last'.ev = "add_no_session"
               /\ UNCHANGED <<USER_STATE, heap, tasks, job_dirs, tmp_files>>]_vars

\* C20 witness: an /add has just appended its download behind an earlier one.
C20_Witness ==
    /\ last.ev = "add_done" /\ last.err = ""
    /\ HasSession(last.u)
    /\ Len(Session(last.u).collected[1]) = 2
    /\ Session(last.u).collected[1][2] = InputPath(last.t)
    /\ Session(last.u).collected[1][1] # InputPath(last.t)

\* A change_speed or an add_text_watermark was just called directly.
SpeedCalled == last.ev \in {"call_done", "call_hangs"} /\ last.arg = "change_speed"
WatermarkCalled == last.ev = "call_done" /\ last.arg = "add_text_watermark"

\* The factor of a /send in a speed session, when the text has one.
SpeedSent ==
    /\ last.ev \in {"send_done", "send_spawn", "send_hangs"}
    /\ last.arg = "speed"
    /\ Len(last.text) > 0
    /\ ParseFloat(last.text[1]) # None

\* C12: a change_speed whose factor is <= 0, called directly or by a /send in a
\* speed session, ends with ValueError and spawns no subprocess.
C12_SpeedRejectsNonPositive ==
    /\ (SpeedCalled /\ LeZero(last.args[1])) =>
          /\ last.ev = "call_done"
          /\ last.err = "ValueError"
          /\ last.cmds = <<>>
    /\ (SpeedSent /\ LeZero(ParseFloat(last.text[1])[1])) =>
          /\ last.ev = "send_done"
          /\ last.err = "ValueError"
          /\ last.cmds = <<>>

\* C12 witness: a change_speed by -1/2 was just refused.
C12_Witness ==
    /\ SpeedCalled
    /\ last.args[1] = Float(-1, 2)
    /\ last.err = "ValueError"

\* The product of a chain's stages, as numerator and denominator.
RECURSIVE ProdN(_)
ProdN(stages) == IF stages = <<>> THEN 1 ELSE Head(stages).n * ProdN(Tail(stages))

RECURSIVE ProdD(_)
ProdD(stages) == IF stages = <<>> THEN 1 ELSE Head(stages).d * ProdD(Tail(stages))

\* 0.5 <= x <= 2.0
InStageRange(f) == f.kind = "fin" /\ 2 * f.n >= f.d /\ f.n <= 2 * f.d

\* C13: a change_speed whose factor is > 0 gets out of its loops, and the
\* chain it built has every stage in [0.5, 2.0] and the factor as the product
\* of its stages.
C13_AtempoChainExact ==
    (SpeedCalled /\ GtZero(last.args[1])) =>
       /\ last.ev = "call_done"
       /\ last.value # <<>>
       /\ \A i \in 1..Len(last.value) : InStageRange(last.value[i])
       /\ ProdN(last.value) * last.args[1].d = last.args[1].n * ProdD(last.value)

Recognised == {"center", "top-left", "top-right", "bottom-left", "bottom-right"}

\* C17: a static watermark whose position is none of the five names gets the
\* coordinates of bottom-right, and two watermarks with different ones of the
\* five names get different coordinates.
C17_UnknownPositionIsBottomRight ==
    [][/\ (WatermarkCalled' /\ last'.args[1] \notin Recognised) =>
             last'.value = drawtext_xy("bottom-right")
       /\ (WatermarkCalled /\ WatermarkCalled'
             /\ {last.args[1], last'.args[1]} \subseteq Recognised
             /\ last.args[1] # last'.args[1]) =>
                last.value # last'.value]_vars

\* C17 as amended: a static watermark whose position, in lower case, is none of
\* the five names gets the coordinates of bottom-right; one whose position in
\* lower case is one of the five gets the coordinates of that name; and two
\* watermarks with different ones of the five names get different coordinates.
C17_UnknownLowerCasedPositionIsBottomRight ==
    [][/\ (WatermarkCalled' /\ Lower(last'.args[1]) \notin Recognised) =>
             last'.value = drawtext_xy("bottom-right")
       /\ (WatermarkCalled' /\ Lower(last'.args[1]) \in Recognised) =>
             last'.value = drawtext_xy(Lower(last'.args[1]))
       /\ (WatermarkCalled /\ WatermarkCalled'
             /\ {last.args[1], last'.args[1]} \subseteq Recognised
             /\ last.args[1] # last'.args[1]) =>
                last.value # last'.value]_vars

\* C17 witness: a watermark at "unknown-value" was just placed where
\* bottom-right is and not where center is.
C17_Witness ==
    /\ WatermarkCalled
    /\ last.args[1] = "unknown-value"
    /\ last.value = <<"w-text_w-10", "h-text_h-10">>

\* The merge jobs of /done handlers whose child is spawned and has not exited.
MergeJobs == {t \in Active(tasks) : tasks[t].kind = "done" /\ tasks[t].pc \in {"spawned", "run"}}

\* C14: with each user's requests one after the other and the /done handlers
\* of two users overlapping: while a job's child has not yet opened its
\* descriptor, the descriptor is there with one line for each of that job's
\* inputs, and what the child reads when it opens it is that.
C14_OverlappingMergesKeepOwnDescriptor ==
    \A t \in MergeJobs :
       LET c == tasks[t].cmd IN
       /\ tasks[t].pc = "spawned" =>
             /\ c.list[1] \in DOMAIN tmp_files
             /\ tmp_files[c.list[1]] = Lines(c.ins)
       /\ tasks[t].pc = "run" => tasks[t].read = Some(Lines(c.ins))

\* C21: when /done calls the merge, or the second /send of ReplaceAudio calls
\* replace_audio, every input path taken from the session (each collected
\* entry, the stored target) still exists: its job directory is not removed.
C21_SessionInputsExist ==
    /\ last.ev = "done_spawn" =>
          \A i \in 1..Len(last.args) : FileExists(last.args[i])
    /\ (last.ev = "send_spawn" /\ last.arg = "audio_replace") =>
          FileExists(last.cmds[1].ins[1])

\* C22: a menu selection B made while a /send, /add or /done handler of the
\* same user is suspended is not lost: the next step of that handler (its
\* write-back of the dict it read, its pop in the finally clause) leaves the
\* user's session the fresh session of B.
C22_SelectionSurvivesHandler ==
    [][\A t \in 1..Len(tasks) :
          (/\ last.ev = "select"
           /\ t \in Active(tasks)
           /\ tasks[t].user = last.u
           /\ tasks'[t] # tasks[t]) =>
              /\ USER_STATE'[last.u] = USER_STATE[last.u]
              /\ heap'[USER_STATE[last.u]] = FreshSession(last.arg)]_vars

\* C23: a user's session is created only by a menu selection: no step of a
\* /send, /add or /done handler takes the session store from no entry for a
\* user to an entry for that user.
C23_OnlyMenuCreatesSession ==
    [][\A u \in Users :
          (USER_STATE[u] = 0 /\ USER_STATE'[u] # 0) =>
             (last'.ev = "select" /\ last'.u = u)]_vars

\* C24: a /send of a user with no session, of a user whose action is
\* merge_collect, or one that replies to no video or document is rejected
\* before make_job_dir: no directory is made, no handler goes on to a download
\* or a child, no descriptor is written and every session stays as it was.
C24_SendRejectsBeforeWorkspace ==
    [][\A u \in Users : \A replied \in BOOLEAN :
          (/\ \/ ~HasSession(u)
              \/ Session(u).action = "merge_collect"
              \/ ~replied
           /\ SendStart(u, replied)) =>
              /\ last'.ev = IF ~HasSession(u) THEN "send_no_action"
                            ELSE IF Session(u).action = "merge_collect"
                                 THEN "send_use_add" ELSE "send_no_reply"
              /\ UNCHANGED <<USER_STATE, heap, tasks, job_dirs, tmp_files>>]_vars

\* C24 witness: a /send that replied to no video was just rejected while the
\* user who can have sent it has a ReplaceAudio session with a stored target.
C24_Witness ==
    /\ last.ev = "send_no_reply"
    /\ \E u \in Users :
          /\ HasSession(u)
          /\ Session(u).action = "audio_replace"
          /\ Session(u).audio_target # None
          /\ \A v \in Users \ {u} : ~HasSession(v)

====
